---- MODULE Spec2Model ----
(***************************************************************************)
(* The suggestion coordination core of Stella.Ai: the two React hooks      *)
(* useLiveSuggestions and useRealtimeSuggestions, the editor components    *)
(* that drive them and the live overlay's key handler.                     *)
(*                                                                         *)
(* JavaScript runs the handlers one at a time, so every handler, timer     *)
(* callback and promise continuation is one atomic action.  The browser's  *)
(* timer queue, the requests on the network and the AbortController        *)
(* signals are state of their own, because the hooks only hold references  *)
(* to them.                                                                *)
(***************************************************************************)
EXTENDS Integers, Sequences, FiniteSets, TLC

(***************************************************************************)
(* Bounds of the model.                                                    *)
(***************************************************************************)
\* schedule calls that arm a timer, per behaviour
MaxCalls == 2
\* the step of the model's clock, in milliseconds
TickMs == 250
\* longest editor text an accepted suggestion may produce
MaxTextLen == 4
\* most indexes one paragraph's rejectedSuggestions list holds
MaxRejected == 1

(***************************************************************************)
(* Values.                                                                 *)
(***************************************************************************)
\* null / undefined of a string-valued slot
Null == "null"
\* null / undefined of any other slot is the empty box, a value v is <<v>>
None == <<>>
Some(v) == <<v>>

\* setTimeout(..., 500) of both hooks
DebounceMs == 500
\* text.trim().length > 2 of the live editor's onUpdate
MinTrimmedLength == 2
\* the session editor's debounce delay, in milliseconds
SessionDebounceMs == 1000
\* getSuggestionsForContent skips a content shorter than this
MinContentLength == 50
\* and asks for a paragraph only when its trimmed length exceeds this
MinParagraphLength == 20

\* Texts are sequences of characters.
IsSpace(c) == c = " "

RECURSIVE TrimStart(_)
TrimStart(s) ==
    IF s = <<>> THEN s
    ELSE IF IsSpace(Head(s)) THEN TrimStart(Tail(s)) ELSE s

RECURSIVE TrimEnd(_)
TrimEnd(s) ==
    IF s = <<>> THEN s
    ELSE IF IsSpace(s[Len(s)]) THEN TrimEnd(SubSeq(s, 1, Len(s) - 1)) ELSE s

\* String.prototype.trim
Trim(s) == TrimEnd(TrimStart(s))

\* the texts a user types or a caller passes
T_Empty == <<>>
T_Blank == <<" ">>
T_Hi == <<"H", "i">>
T_Hi3 == <<"H", "i", "!">>
T_Padded == <<" ", "H", "i", " ">>
Texts == {T_Empty, T_Blank, T_Hi, T_Hi3, T_Padded}

\* the text of the toolbar's "Test Suggestions" button
T_Once == <<"O", "n", "c", "e", " ", "u", "p", "o", "n", " ", "a", " ",
            "t", "i", "m", "e">>

\* suggestion items the service returns; the empty string is one of them
I_Empty == <<>>
I_X == <<"x">>
I_Y == <<"y">>
\* response.suggestions: absent, or a list of 0 to 3 items
SuggestionLists == {<<>>, <<I_X>>, <<I_Empty, I_X, I_Y>>}
LiveResponses == {None} \cup {Some(l) : l \in SuggestionLists}
\* response.text_suggestions: absent, or a list of two items
RealtimeResponses == {None, Some(<<I_X, I_Y>>)}

\* the names of the errors fetch and WritingAPI.request can throw: a network
\* failure is a TypeError, a non-ok status an Error; no signal is ever handed
\* to fetch, so it never throws an AbortError
ErrorNames == {"TypeError", "Error"}
\* the failure the paragraph hook is given: a non-ok status
RealtimeErrorNames == {"Error"}

VARIABLES
    variant,                 \* which EnhancedTipTapEditor is mounted
    userId,                  \* the editor's userId prop
    sessionId,               \* the editor's sessionId prop
    editorText,              \* editor.getText()
    editorCursor,            \* editor.state.selection.anchor
    paragraphs,              \* the paragraph editor's paragraphs (their texts)
    activeParagraphId,
    timers,                  \* the browser's pending timeouts
    nextTimer,               \* the id the next setTimeout returns
    debounceTimeoutRef,      \* the hook's debounceTimeoutRef.current
    issued,                  \* the requests sent so far
    inflight,                \* the requests sent and not yet resolved
    aborted,                 \* ids of the controllers whose signal is aborted
    abortControllerRef,      \* useLiveSuggestions' abortControllerRef.current
    lastRequestRef,          \* useRealtimeSuggestions' lastRequestRef.current
    suggestions,             \* useLiveSuggestions' suggestions
    suggestionsByParagraph,  \* useRealtimeSuggestions' suggestions
    isLoading,               \* the mounted hook's isLoading
    error,                   \* useRealtimeSuggestions' error
    showSuggestions,
    selectedSuggestionIndex,
    escaped,                 \* an exception left a timer callback
    lastCall,                \* the schedule call that armed the pending timer
    burstLen,                \* arming calls behind the pending timer
    elapsed,                 \* ms since the burst's first and latest call
    lastWriter,              \* request whose outcome last wrote the items
    mounted,                 \* the editor, and with it the hook, is mounted
    lateSetters,             \* state setters called after the unmount
    sessionTimers,           \* the session editor's pending timeouts
    nextSessionTimer,        \* the id its next setTimeout returns
    debounceRef,             \* the session editor's debounceRef.current
    runs,                    \* getSuggestionsForContent runs at an await
    started,                 \* ids of the runs that passed the length test
    sessionSuggestions,      \* the session editor's suggestions
    isLoadingSuggestions,    \* the session editor's isLoadingSuggestions
    sessionWriter,           \* run that last called setSuggestions
    op                       \* the operation performed last

vars == <<variant, userId, sessionId, editorText, editorCursor, paragraphs,
          activeParagraphId, timers, nextTimer, debounceTimeoutRef, issued,
          inflight, aborted, abortControllerRef, lastRequestRef, suggestions,
          suggestionsByParagraph, isLoading, error, showSuggestions,
          selectedSuggestionIndex, escaped, lastCall, burstLen, elapsed,
          lastWriter, mounted, lateSetters, sessionTimers, nextSessionTimer,
          debounceRef, runs, started, sessionSuggestions,
          isLoadingSuggestions, sessionWriter, op>>

propVars == <<variant, userId, sessionId>>
\* what only the session editor changes
sessionVars == <<sessionTimers, nextSessionTimer, debounceRef, runs, started,
                 sessionSuggestions, isLoadingSuggestions, sessionWriter>>
lifeVars == <<mounted, lateSetters>>
editorVars == <<editorText, editorCursor>>
timerVars == <<timers, nextTimer, debounceTimeoutRef, lastCall, burstLen,
               elapsed>>
requestVars == <<issued, inflight>>
itemVars == <<suggestions, showSuggestions, selectedSuggestionIndex>>
\* what only the live editor and its hook change
liveVars == <<editorVars, itemVars, abortControllerRef>>
\* what only the paragraph editor and its hook change
paragraphVars == <<paragraphs, activeParagraphId, suggestionsByParagraph,
                   error, lastRequestRef>>

Op(name, arg) == [name |-> name, arg |-> arg]

\* elapsed while no timer is pending
NoTime == [first |-> 0, last |-> 0]

\* lastCall while no timer is pending
NoCall == [pid |-> None, text |-> <<>>, cursor |-> None]

(***************************************************************************)
(* The timer queue and the abort signals.                                  *)
(***************************************************************************)
\* a timer that takes over the time left of the timer it replaces
SetTimeoutKeepingDeadline(ts, id, pid, text, cursor) ==
    ts \cup {[id |-> id,
              left |-> IF timers = {} THEN DebounceMs
                       ELSE (CHOOSE t \in timers : TRUE).left,
              pid |-> pid, text |-> text, cursor |-> cursor]}

\* setTimeout(callback, 500): the callback's closure is the payload
SetTimeout(ts, id, pid, text, cursor) ==
    ts \cup {[id |-> id, left |-> DebounceMs, pid |-> pid, text |-> text,
              cursor |-> cursor]}

\* a schedule call that leaves the earlier timer armed
ClearTimeoutForgotten(ts, ref) == ts

\* a clearTimeout handed the id of an older timer than the one the ref holds
ClearTimeoutOfOlder(ts, ref) == {t \in ts : t.id >= ref}

\* if (ref.current) clearTimeout(ref.current)
ClearTimeout(ts, ref) == {t \in ts : t.id # ref}

\* an abort that is never made
AbortForgotten(ab, ref) == ab

\* if (ref.current) ref.current.abort()
Abort(ab, ref) == IF ref = 0 THEN ab ELSE ab \cup {ref}

\* a check of the signal that never sees an abort
SignalAbortedNever(id) == FALSE

\* controller.signal.aborted
SignalAborted(id) == id \in aborted

\* the model arms at most MaxCalls timers
CanArm == nextTimer <= MaxCalls

\* timers of equal delay run in the order they were set
Due(t) ==
    /\ t \in timers
    /\ t.left = 0
    /\ \A u \in timers : u.id >= t.id

\* the id of the latest request sent, 0 when there is none
Max(S) == CHOOSE x \in S : \A y \in S : y <= x
IssuedIds == {r.id : r \in issued}
LatestIssued == IF issued = {} THEN 0 ELSE Max(IssuedIds)

\* the request a timer callback sends: its requestData, under the id of its
\* AbortController
Sent(t) == [id |-> t.id, pid |-> t.pid, text |-> t.text, cursor |-> t.cursor]
InflightIds == {r.id : r \in inflight}

\* what is remembered of a request once it is sent: its id and its context
Token(t) == [id |-> t.id, pid |-> t.pid]

(***************************************************************************)
(* useLiveSuggestions                                                      *)
(***************************************************************************)
\* const effectiveUserId = userId || "demo-user"
effectiveUserId == IF userId = Null THEN "demo-user" ELSE userId

\* fetchLiveSuggestions(currentText, cursorPosition): the part that runs
\* in the caller's turn
fetchLiveSuggestions(currentText, cursorPosition) ==
    IF effectiveUserId = Null
    THEN UNCHANGED <<timerVars, aborted>>
    ELSE /\ CanArm
         /\ timers' = SetTimeout(ClearTimeout(timers, debounceTimeoutRef),
                                 nextTimer, None, currentText, cursorPosition)
         /\ debounceTimeoutRef' = nextTimer
         /\ nextTimer' = nextTimer + 1
         /\ aborted' = Abort(aborted, abortControllerRef)
         /\ lastCall' = [pid |-> None, text |-> currentText,
                         cursor |-> cursorPosition]
         /\ burstLen' = IF timers = {} THEN 1 ELSE burstLen + 1
         /\ elapsed' = [first |-> IF timers = {} THEN 0 ELSE elapsed.first,
                         last |-> 0]

\* a hideSuggestions that keeps the selected index
hideSuggestionsKeepingIndex ==
    /\ showSuggestions' = "false"
    /\ suggestions' = <<>>
    /\ UNCHANGED selectedSuggestionIndex

\* hideSuggestions()
hideSuggestions ==
    /\ showSuggestions' = "false"
    /\ suggestions' = <<>>
    /\ selectedSuggestionIndex' = 0

\* suggestions[i] of a JavaScript array: the item, or nothing out of range
ItemAt(list, i) ==
    IF i \in 0 .. Len(list) - 1 THEN Some(list[i + 1]) ELSE None

\* if (suggestion): undefined and the empty string are falsy
ItemTruthy(boxed) == boxed # None /\ boxed[1] # <<>>

\* index || selectedSuggestionIndex: index 0 taken for a missing index
ResolveIndexFalsy(index) ==
    IF index # None /\ index[1] # 0 THEN index[1] ELSE selectedSuggestionIndex

\* index !== null ? index : selectedSuggestionIndex
ResolveIndex(index) ==
    IF index # None THEN index[1] ELSE selectedSuggestionIndex

\* what acceptSuggestion(index) returns: the item, or None for null
AcceptResult(index) ==
    LET suggestion == ItemAt(suggestions, ResolveIndex(index))
    IN  IF ItemTruthy(suggestion) THEN suggestion ELSE None

\* acceptSuggestion(index): its effect on the hook's state
acceptSuggestion(index) ==
    IF AcceptResult(index) # None
    THEN hideSuggestions
    ELSE UNCHANGED itemVars

\* a navigation whose 'up' stops at the first item
NavigateIndexUpStops(direction, prev, length) ==
    IF direction = "up"
    THEN (IF prev > 0 THEN prev - 1 ELSE 0)
    ELSE IF direction = "down"
    THEN (IF prev < length - 1 THEN prev + 1 ELSE 0)
    ELSE prev

\* a navigation that stops at the ends instead of wrapping
NavigateIndexClamped(direction, prev, length) ==
    IF direction = "up"
    THEN (IF prev > 0 THEN prev - 1 ELSE 0)
    ELSE IF direction = "down"
    THEN (IF prev < length - 1 THEN prev + 1 ELSE length - 1)
    ELSE prev

\* the updater navigateSuggestions(direction) passes to the index setter
NavigateIndex(direction, prev, length) ==
    IF direction = "up"
    THEN (IF prev > 0 THEN prev - 1 ELSE length - 1)
    ELSE IF direction = "down"
    THEN (IF prev < length - 1 THEN prev + 1 ELSE 0)
    ELSE prev

\* navigateSuggestions(direction)
navigateSuggestions(direction) ==
    /\ selectedSuggestionIndex' =
           IF Len(suggestions) = 0
           THEN selectedSuggestionIndex
           ELSE NavigateIndex(direction, selectedSuggestionIndex,
                              Len(suggestions))
    /\ UNCHANGED <<suggestions, showSuggestions>>

(***************************************************************************)
(* The live editor (EnhancedTipTapEditor with the overlay)                 *)
(***************************************************************************)
\* onUpdate's test: text.trim().length > 2 && effectiveUserId
LiveShouldFetch(text) ==
    Len(Trim(text)) > MinTrimmedLength /\ effectiveUserId # Null

\* onUpdate({ editor }) once the document holds text with the cursor at pos
onUpdate(text, pos) ==
    /\ editorText' = text
    /\ editorCursor' = pos
    /\ IF LiveShouldFetch(text)
       THEN fetchLiveSuggestions(text, Some(pos))
       ELSE UNCHANGED <<timerVars, aborted>>

\* editor.commands.insertContent(s) at the cursor
InsertAt(text, pos, s) ==
    SubSeq(text, 1, pos) \o s \o SubSeq(text, pos + 1, Len(text))

\* const suggestionText = ` ${suggestion}`
SuggestionText(suggestion) == <<" ">> \o suggestion

\* the user edits the document
LiveEdit(text, pos) ==
    /\ variant = "live"
    /\ mounted
    /\ onUpdate(text, pos)
    /\ op' = Op("edit", <<>>)
    /\ UNCHANGED <<propVars, sessionVars, lifeVars, requestVars, abortControllerRef, itemVars,
                   isLoading, escaped, lastWriter, paragraphVars>>

\* the toolbar's "Test Suggestions" button
LiveTestButton ==
    /\ variant = "live"
    /\ mounted
    /\ fetchLiveSuggestions(T_Once, Some(15))
    /\ op' = Op("testButton", <<>>)
    /\ UNCHANGED <<propVars, sessionVars, lifeVars, editorVars, requestVars, abortControllerRef,
                   itemVars, isLoading, escaped, lastWriter, paragraphVars>>

\* any caller of the hook's fetchLiveSuggestions
LiveFetchCall(text, cursor) ==
    /\ variant = "live"
    /\ mounted
    /\ fetchLiveSuggestions(text, cursor)
    /\ op' = Op("fetchLiveSuggestions", <<>>)
    /\ UNCHANGED <<propVars, sessionVars, lifeVars, editorVars, requestVars, abortControllerRef,
                   itemVars, isLoading, escaped, lastWriter, paragraphVars>>

\* handleAcceptSuggestion(suggestionIndex): accept, then insert the item,
\* which makes the editor emit its update
handleAcceptSuggestion(index) ==
    LET suggestion == AcceptResult(index)
        inserted == InsertAt(editorText, editorCursor,
                             SuggestionText(suggestion[1]))
    IN  /\ acceptSuggestion(index)
        /\ IF suggestion # None
           THEN /\ Len(inserted) <= MaxTextLen
                /\ onUpdate(inserted,
                            editorCursor + Len(SuggestionText(suggestion[1])))
           ELSE UNCHANGED <<editorVars, timerVars, aborted>>

\* a reject that resolves the selected item like an accept
handleRejectSuggestionAccepting == handleAcceptSuggestion(None)

\* handleRejectSuggestion()
handleRejectSuggestion ==
    /\ hideSuggestions
    /\ UNCHANGED <<editorVars, timerVars, aborted>>

\* handleNavigateSuggestions(direction)
handleNavigateSuggestions(direction) ==
    /\ navigateSuggestions(direction)
    /\ UNCHANGED <<editorVars, timerVars, aborted>>

\* onAccept of the overlay, or any caller of handleAcceptSuggestion
LiveAccept(index) ==
    /\ variant = "live"
    /\ mounted
    /\ handleAcceptSuggestion(index)
    /\ op' = Op("accept", <<index, AcceptResult(index)>>)
    /\ UNCHANGED <<propVars, sessionVars, lifeVars, requestVars, abortControllerRef, isLoading,
                   escaped, lastWriter, paragraphVars>>

\* onReject of the overlay: Escape or the Dismiss button
LiveReject ==
    /\ variant = "live"
    /\ mounted
    /\ handleRejectSuggestion
    /\ op' = Op("reject", <<Len(suggestions)>>)
    /\ UNCHANGED <<propVars, sessionVars, lifeVars, requestVars, abortControllerRef, isLoading,
                   escaped, lastWriter, paragraphVars>>

\* onNavigate of the overlay
LiveNavigate(direction) ==
    /\ variant = "live"
    /\ mounted
    /\ handleNavigateSuggestions(direction)
    /\ op' = Op("navigate", <<direction>>)
    /\ UNCHANGED <<propVars, sessionVars, lifeVars, requestVars, abortControllerRef, isLoading,
                   escaped, lastWriter, paragraphVars>>

(***************************************************************************)
(* The overlay's key handler (LiveSuggestionsOverlay)                      *)
(***************************************************************************)
\* the keys the switch of handleKeyDown names
BoundKeys == {"Tab", "Escape", "ArrowUp", "ArrowDown"}
\* the keys a user presses: the bound ones and an editing key
Keys == BoundKeys \cup {"a"}

\* if (showSuggestions): undefined and false are falsy
Truthy(show) == show = "true"

\* a handler that does not look at showSuggestions
KeyOutcomeWhileHidden(key) ==
    CASE key = "Tab" ->
             [prevented |-> TRUE,
              call |-> <<"onAccept", selectedSuggestionIndex>>]
      [] key = "Escape" -> [prevented |-> TRUE, call |-> <<"onReject">>]
      [] key = "ArrowUp" -> [prevented |-> TRUE, call |-> <<"onNavigate", "up">>]
      [] key = "ArrowDown" ->
             [prevented |-> TRUE, call |-> <<"onNavigate", "down">>]
      [] OTHER -> [prevented |-> FALSE, call |-> <<>>]

\* a handler whose Escape accepts the selected item
KeyOutcomeEscapeAccepts(key) ==
    IF ~Truthy(showSuggestions)
    THEN [prevented |-> FALSE, call |-> <<>>]
    ELSE CASE key \in {"Tab", "Escape"} ->
                  [prevented |-> TRUE,
                   call |-> <<"onAccept", selectedSuggestionIndex>>]
           [] key = "ArrowUp" ->
                  [prevented |-> TRUE, call |-> <<"onNavigate", "up">>]
           [] key = "ArrowDown" ->
                  [prevented |-> TRUE, call |-> <<"onNavigate", "down">>]
           [] OTHER -> [prevented |-> FALSE, call |-> <<>>]

\* handleKeyDown(event): whether it calls event.preventDefault(), and the
\* callback it invokes with its arguments (none: the empty tuple)
KeyOutcome(key) ==
    IF ~Truthy(showSuggestions)
    THEN [prevented |-> FALSE, call |-> <<>>]
    ELSE CASE key = "Tab" ->
                  [prevented |-> TRUE,
                   call |-> <<"onAccept", selectedSuggestionIndex>>]
           [] key = "Escape" -> [prevented |-> TRUE, call |-> <<"onReject">>]
           [] key = "ArrowUp" ->
                  [prevented |-> TRUE, call |-> <<"onNavigate", "up">>]
           [] key = "ArrowDown" ->
                  [prevented |-> TRUE, call |-> <<"onNavigate", "down">>]
           [] OTHER -> [prevented |-> FALSE, call |-> <<>>]

\* the callback runs: onAccept, onReject and onNavigate are the editor's
\* handleAcceptSuggestion, handleRejectSuggestion, handleNavigateSuggestions
Invoke(call) ==
    IF call = <<>>
    THEN UNCHANGED <<itemVars, editorVars, timerVars, aborted>>
    ELSE IF call[1] = "onAccept" THEN handleAcceptSuggestion(Some(call[2]))
    ELSE IF call[1] = "onReject" THEN handleRejectSuggestion
    ELSE handleNavigateSuggestions(call[2])

\* a keydown reaches the document while the live editor is mounted
LiveKeyDown(key) ==
    /\ variant = "live"
    /\ mounted
    /\ Invoke(KeyOutcome(key).call)
    /\ op' = Op("keydown", <<key, KeyOutcome(key)>>)
    /\ UNCHANGED <<propVars, sessionVars, lifeVars, requestVars, abortControllerRef,
                   isLoading, escaped, lastWriter, paragraphVars>>

(***************************************************************************)
(* Time, and the asynchronous half of useLiveSuggestions                   *)
(***************************************************************************)
\* TickMs milliseconds pass
Tick ==
    /\ timers # {}
    /\ \E t \in timers : t.left > 0
    /\ timers' = {[t EXCEPT !.left = IF t.left > TickMs THEN t.left - TickMs
                                     ELSE 0] : t \in timers}
    /\ elapsed' = [first |-> elapsed.first + TickMs,
                    last |-> elapsed.last + TickMs]
    /\ op' = Op("tick", <<>>)
    /\ UNCHANGED <<propVars, sessionVars, lifeVars, nextTimer, debounceTimeoutRef, lastCall,
                   burstLen, requestVars, aborted, liveVars, isLoading,
                   escaped, lastWriter, paragraphVars>>

\* a timer callback that empties the overlay while the request is out
LiveTimerFireClearingItems(t) ==
    /\ variant = "live"
    /\ Due(t)
    /\ timers' = timers \ {t}
    /\ isLoading' = TRUE
    /\ abortControllerRef' = t.id
    /\ issued' = issued \cup {Token(t)}
    /\ inflight' = inflight \cup {Token(t)}
    /\ lastCall' = NoCall
    /\ burstLen' = 0
    /\ elapsed' = NoTime
    /\ suggestions' = <<>>
    /\ showSuggestions' = "false"
    /\ op' = Op("fire", <<t.id, burstLen, Sent(t), elapsed>>)
    /\ UNCHANGED <<propVars, sessionVars, lifeVars, editorVars, nextTimer, debounceTimeoutRef,
                   aborted, selectedSuggestionIndex, escaped, lastWriter,
                   paragraphVars>>

\* the timer callback up to its await: the request goes out
LiveTimerFire(t) ==
    /\ variant = "live"
    /\ Due(t)
    /\ timers' = timers \ {t}
    /\ isLoading' = TRUE
    /\ abortControllerRef' = t.id
    /\ issued' = issued \cup {Token(t)}
    /\ inflight' = inflight \cup {Token(t)}
    /\ lastCall' = NoCall
    /\ burstLen' = 0
    /\ elapsed' = NoTime
    /\ op' = Op("fire", <<t.id, burstLen, Sent(t), elapsed>>)
    /\ UNCHANGED <<propVars, sessionVars, lifeVars, editorVars, nextTimer, debounceTimeoutRef,
                   aborted, itemVars, escaped, lastWriter, paragraphVars>>

\* response.suggestions || []
ListOf(response) == IF response = None THEN <<>> ELSE response[1]

\* a flag that is set whatever the response holds
ShowOfAlways(response) == "true"

\* response.suggestions && response.suggestions.length > 0
ShowOf(response) ==
    IF response = None THEN "undefined"
    ELSE IF Len(response[1]) > 0 THEN "true" ELSE "false"

\* a continuation that keeps the selected index of the list it replaces
LiveOnResponseKeepingIndex(id, response) ==
    IF SignalAborted(id)
    THEN UNCHANGED <<itemVars, lastWriter>>
    ELSE /\ suggestions' = ListOf(response)
         /\ showSuggestions' = ShowOf(response)
         /\ lastWriter' = id
         /\ UNCHANGED selectedSuggestionIndex

\* a continuation that shows the list in another order
LiveOnResponseReordered(id, response) ==
    IF SignalAborted(id)
    THEN UNCHANGED <<itemVars, lastWriter>>
    ELSE /\ suggestions' = [i \in 1 .. Len(ListOf(response)) |->
                               ListOf(response)[Len(ListOf(response)) + 1 - i]]
         /\ selectedSuggestionIndex' = 0
         /\ showSuggestions' = ShowOf(response)
         /\ lastWriter' = id

\* a continuation that does not look at the signal
LiveOnResponseUnchecked(id, response) ==
    /\ suggestions' = ListOf(response)
    /\ selectedSuggestionIndex' = 0
    /\ showSuggestions' = ShowOf(response)
    /\ lastWriter' = id

\* the continuation after the await, the response being there
LiveOnResponse(id, response) ==
    IF SignalAborted(id)
    THEN UNCHANGED <<itemVars, lastWriter>>
    ELSE /\ suggestions' = ListOf(response)
         /\ selectedSuggestionIndex' = 0
         /\ showSuggestions' = ShowOf(response)
         /\ lastWriter' = id

\* try { ... } catch (err) { ... }: the catch clause takes every error
Caught(errName) == TRUE

\* a catch block that hides the overlay and keeps its items
LiveOnErrorKeepingItems(id, errName) ==
    /\ showSuggestions' = "false"
    /\ lastWriter' = id
    /\ UNCHANGED <<suggestions, selectedSuggestionIndex>>

\* the catch block
LiveOnError(id, errName) ==
    IF errName = "AbortError"
    THEN UNCHANGED <<itemVars, lastWriter>>
    ELSE /\ suggestions' = <<>>
         /\ showSuggestions' = "false"
         /\ lastWriter' = id
         /\ UNCHANGED selectedSuggestionIndex

\* the state setters the continuation calls on a response, finally included
LiveResponseSetters(id) ==
    IF SignalAborted(id) THEN {"setIsLoading"}
    ELSE {"setSuggestions", "setSelectedSuggestionIndex",
          "setShowSuggestions", "setIsLoading"}

\* the state setters the catch block and finally call
LiveErrorSetters(errName) ==
    IF errName = "AbortError" THEN {"setIsLoading"}
    ELSE {"setSuggestions", "setShowSuggestions", "setIsLoading"}

\* a request resolves with a response; React drops the updates of a
\* component that is no longer mounted
LiveResolve(id, response) ==
    /\ variant = "live"
    /\ id \in InflightIds
    /\ inflight' = {r \in inflight : r.id # id}
    /\ IF mounted
       THEN /\ LiveOnResponse(id, response)
            /\ isLoading' = FALSE
            /\ UNCHANGED lateSetters
       ELSE /\ UNCHANGED <<itemVars, lastWriter, isLoading>>
            /\ lateSetters' = lateSetters \cup LiveResponseSetters(id)
    /\ op' = Op("response", <<id, selectedSuggestionIndex, response>>)
    /\ UNCHANGED <<propVars, sessionVars, mounted, editorVars, timerVars, issued,
                   abortControllerRef, aborted, escaped, paragraphVars>>

\* a request fails in transport
LiveFail(id, errName) ==
    /\ variant = "live"
    /\ id \in InflightIds
    /\ inflight' = {r \in inflight : r.id # id}
    /\ IF mounted
       THEN /\ LiveOnError(id, errName)
            /\ isLoading' = FALSE
            /\ UNCHANGED lateSetters
       ELSE /\ UNCHANGED <<itemVars, lastWriter, isLoading>>
            /\ lateSetters' = lateSetters \cup LiveErrorSetters(errName)
    /\ escaped' = (escaped \/ ~Caught(errName))
    /\ op' = Op("failure", <<id, errName>>)
    /\ UNCHANGED <<propVars, sessionVars, mounted, editorVars, timerVars, issued,
                   abortControllerRef, aborted, paragraphVars>>

(***************************************************************************)
(* useRealtimeSuggestions                                                  *)
(***************************************************************************)
\* a test that looks at the text only
RealtimeSkipsBlankOnly(text) == Trim(text) = <<>>

\* fetchSuggestions' test: !text.trim() || !userId || !sessionId
RealtimeSkips(text) ==
    Trim(text) = <<>> \/ userId = Null \/ sessionId = Null

\* fetchSuggestions(paragraphId, text, cursorPosition): the part that runs
\* in the caller's turn
fetchSuggestions(paragraphId, text, cursorPosition) ==
    IF RealtimeSkips(text)
    THEN UNCHANGED timerVars
    ELSE /\ CanArm
         /\ timers' = SetTimeout(ClearTimeout(timers, debounceTimeoutRef),
                                 nextTimer, paragraphId, text, cursorPosition)
         /\ debounceTimeoutRef' = nextTimer
         /\ nextTimer' = nextTimer + 1
         /\ lastCall' = [pid |-> paragraphId, text |-> text,
                         cursor |-> cursorPosition]
         /\ burstLen' = IF timers = {} THEN 1 ELSE burstLen + 1
         /\ elapsed' = [first |-> IF timers = {} THEN 0 ELSE elapsed.first,
                         last |-> 0]

\* a map in which the entry written is the only one
UpsertAlone(map, paragraphId, entry) ==
    [p \in {paragraphId} |-> entry]

\* { ...prev, [paragraphId]: entry }
Upsert(map, paragraphId, entry) ==
    [p \in DOMAIN map \cup {paragraphId} |->
        IF p = paragraphId THEN entry ELSE map[p]]

\* the entry a response is stored as; the fields a later accept, reject or
\* apply adds are absent
ResponseEntry(response) ==
    [suggestions |-> ListOf(response), error |-> Null,
     acceptedSuggestion |-> None, rejectedSuggestions |-> <<>>,
     appliedSuggestion |-> None]

\* err.message
ErrorMessage(errName) ==
    IF errName = "TypeError" THEN "Failed to fetch"
    ELSE "API request failed"

\* the entry a failure is stored as
ErrorEntry(errName) ==
    [suggestions |-> <<>>, error |-> ErrorMessage(errName),
     acceptedSuggestion |-> None, rejectedSuggestions |-> <<>>,
     appliedSuggestion |-> None]

\* getSuggestions(paragraphId): suggestions[paragraphId] || null
getSuggestions(paragraphId) ==
    IF paragraphId \in DOMAIN suggestionsByParagraph
    THEN Some(suggestionsByParagraph[paragraphId])
    ELSE None

\* clearSuggestions(paragraphId): delete newSuggestions[paragraphId]
clearSuggestions(paragraphId) ==
    suggestionsByParagraph' =
        [p \in DOMAIN suggestionsByParagraph \ {paragraphId} |->
            suggestionsByParagraph[p]]

\* useRealtimeSuggestions' acceptSuggestion(paragraphId, suggestionIndex)
realtimeAcceptSuggestion(paragraphId, suggestionIndex) ==
    IF getSuggestions(paragraphId) = None
    THEN UNCHANGED suggestionsByParagraph
    ELSE suggestionsByParagraph' =
             Upsert(suggestionsByParagraph, paragraphId,
                    [suggestionsByParagraph[paragraphId]
                        EXCEPT !.acceptedSuggestion = Some(suggestionIndex)])

\* list.filter((_, index) => index !== suggestionIndex)
FilterOut(list, suggestionIndex) ==
    IF suggestionIndex \in 0 .. Len(list) - 1
    THEN [k \in 1 .. Len(list) - 1 |->
             IF k <= suggestionIndex THEN list[k] ELSE list[k + 1]]
    ELSE list

\* rejectSuggestion(paragraphId, suggestionIndex)
rejectSuggestion(paragraphId, suggestionIndex) ==
    IF getSuggestions(paragraphId) = None
    THEN UNCHANGED suggestionsByParagraph
    ELSE LET paragraphSuggestions == suggestionsByParagraph[paragraphId]
         IN  suggestionsByParagraph' =
                 Upsert(suggestionsByParagraph, paragraphId,
                        [paragraphSuggestions EXCEPT
                            !.suggestions =
                                FilterOut(paragraphSuggestions.suggestions,
                                          suggestionIndex),
                            !.rejectedSuggestions =
                                Append(paragraphSuggestions.rejectedSuggestions,
                                       suggestionIndex)])

\* applySuggestion's test: no entry, or no item at the index
ApplyFindsNothing(paragraphId, suggestionIndex) ==
    \/ getSuggestions(paragraphId) = None
    \/ ~ItemTruthy(ItemAt(suggestionsByParagraph[paragraphId].suggestions,
                          suggestionIndex))

\* `${originalText}\n\n[AI Suggestion Applied: ${suggestion}]`
AppliedText(originalText, suggestion) ==
    originalText \o <<"\n", "\n", "[AI Suggestion Applied: ">> \o suggestion
        \o <<"]">>

\* what applySuggestion(paragraphId, suggestionIndex, originalText) returns
ApplyResult(paragraphId, suggestionIndex, originalText) ==
    IF ApplyFindsNothing(paragraphId, suggestionIndex)
    THEN originalText
    ELSE AppliedText(originalText,
                     suggestionsByParagraph[paragraphId]
                         .suggestions[suggestionIndex + 1])

\* an applySuggestion that marks the entry without looking for the item
applySuggestionMarkingAlways(paragraphId, suggestionIndex, originalText) ==
    IF getSuggestions(paragraphId) = None
    THEN UNCHANGED suggestionsByParagraph
    ELSE suggestionsByParagraph' =
             Upsert(suggestionsByParagraph, paragraphId,
                    [suggestionsByParagraph[paragraphId]
                        EXCEPT !.appliedSuggestion = Some(suggestionIndex)])

\* an applySuggestion that computes the text and marks nothing
applySuggestionUnmarked(paragraphId, suggestionIndex, originalText) ==
    UNCHANGED suggestionsByParagraph

\* applySuggestion(paragraphId, suggestionIndex, originalText): its writes
applySuggestion(paragraphId, suggestionIndex, originalText) ==
    IF ApplyFindsNothing(paragraphId, suggestionIndex)
    THEN UNCHANGED suggestionsByParagraph
    ELSE suggestionsByParagraph' =
             Upsert(suggestionsByParagraph, paragraphId,
                    [suggestionsByParagraph[paragraphId]
                        EXCEPT !.appliedSuggestion = Some(suggestionIndex)])

\* the continuation after the await, the response being there
RealtimeOnResponse(r, response) ==
    IF SignalAborted(r.id)
    THEN UNCHANGED <<suggestionsByParagraph, lastWriter>>
    ELSE /\ suggestionsByParagraph' =
                Upsert(suggestionsByParagraph, r.pid, ResponseEntry(response))
         /\ lastWriter' = r.id

\* the catch block
RealtimeOnError(r, errName) ==
    IF errName = "AbortError"
    THEN UNCHANGED <<suggestionsByParagraph, error, lastWriter>>
    ELSE /\ error' = ErrorMessage(errName)
         /\ suggestionsByParagraph' =
                Upsert(suggestionsByParagraph, r.pid, ErrorEntry(errName))
         /\ lastWriter' = r.id

(***************************************************************************)
(* The paragraph editor (EnhancedTipTapEditor with useRealtimeSuggestions) *)
(***************************************************************************)
Min(a, b) == IF a < b THEN a ELSE b

\* text.slice(0, 20)
Slice20(text) == SubSeq(text, 1, Min(20, Len(text)))

\* .replace(/\s/g, '-')
Dashed(text) ==
    [i \in 1 .. Len(text) |-> IF IsSpace(text[i]) THEN "-" ELSE text[i]]

\* `paragraph-${index}-${text.slice(0, 20).replace(/\s/g, '-')}`
ParagraphId(index, text) == <<index, Dashed(Slice20(text))>>

\* the id of the editor's i-th paragraph (the first has index 0)
IdOfParagraph(i) == ParagraphId(i - 1, paragraphs[i])

\* onUpdate -> updateParagraphs: the user edits the i-th paragraph
RealtimeEdit(i, text) ==
    /\ variant = "realtime"
    /\ mounted
    /\ paragraphs[i] # text
    /\ paragraphs' = [paragraphs EXCEPT ![i] = text]
    /\ op' = Op("edit", <<>>)
    /\ UNCHANGED <<propVars, sessionVars, lifeVars, timerVars, requestVars, aborted, liveVars,
                   activeParagraphId, suggestionsByParagraph, error,
                   lastRequestRef, isLoading, escaped, lastWriter>>

\* handleParagraphClick(paragraphId, event) on the i-th paragraph
handleParagraphClick(i) ==
    IF Trim(paragraphs[i]) = <<>>
    THEN UNCHANGED <<activeParagraphId, timerVars>>
    ELSE /\ activeParagraphId' = Some(IdOfParagraph(i))
         /\ fetchSuggestions(IdOfParagraph(i), paragraphs[i], None)

RealtimeClick(i) ==
    /\ variant = "realtime"
    /\ mounted
    /\ handleParagraphClick(i)
    /\ op' = Op("click", <<i>>)
    /\ UNCHANGED <<propVars, sessionVars, lifeVars, requestVars, aborted, liveVars, paragraphs,
                   suggestionsByParagraph, error, lastRequestRef, isLoading,
                   escaped, lastWriter>>

\* any caller of the hook's fetchSuggestions
RealtimeFetchCall(paragraphId, text, cursor) ==
    /\ variant = "realtime"
    /\ mounted
    /\ fetchSuggestions(paragraphId, text, cursor)
    /\ op' = Op("fetchSuggestions", <<paragraphId, text>>)
    /\ UNCHANGED <<propVars, sessionVars, lifeVars, requestVars, aborted, liveVars, paragraphVars,
                   isLoading, escaped, lastWriter>>

\* what the callers of the hook's item functions leave alone
RealtimeItemFrame ==
    UNCHANGED <<propVars, sessionVars, lifeVars, timerVars, requestVars, aborted, liveVars,
                paragraphs, activeParagraphId, error, lastRequestRef,
                isLoading, escaped, lastWriter>>

\* any caller of the hook's acceptSuggestion
RealtimeAccept(paragraphId, suggestionIndex) ==
    /\ variant = "realtime"
    /\ mounted
    /\ realtimeAcceptSuggestion(paragraphId, suggestionIndex)
    /\ op' = Op("acceptSuggestion", <<paragraphId, suggestionIndex>>)
    /\ RealtimeItemFrame

\* any caller of the hook's rejectSuggestion
RealtimeReject(paragraphId, suggestionIndex) ==
    /\ variant = "realtime"
    /\ mounted
    /\ getSuggestions(paragraphId) # None =>
           Len(suggestionsByParagraph[paragraphId].rejectedSuggestions)
               < MaxRejected
    /\ rejectSuggestion(paragraphId, suggestionIndex)
    /\ op' = Op("rejectSuggestion", <<paragraphId, suggestionIndex>>)
    /\ RealtimeItemFrame

\* any caller of the hook's applySuggestion
RealtimeApply(paragraphId, suggestionIndex, originalText) ==
    /\ variant = "realtime"
    /\ mounted
    /\ applySuggestion(paragraphId, suggestionIndex, originalText)
    /\ op' = Op("applySuggestion", <<paragraphId, suggestionIndex, originalText,
                           ApplyResult(paragraphId, suggestionIndex,
                                       originalText)>>)
    /\ RealtimeItemFrame

\* any caller of the hook's clearSuggestions
RealtimeClear(paragraphId) ==
    /\ variant = "realtime"
    /\ mounted
    /\ clearSuggestions(paragraphId)
    /\ op' = Op("clearSuggestions", <<paragraphId>>)
    /\ RealtimeItemFrame

\* the state setters the continuation calls on a response, finally included
RealtimeResponseSetters(id) ==
    IF SignalAborted(id) THEN {"setIsLoading"}
    ELSE {"setSuggestions", "setIsLoading"}

\* the state setters the catch block and finally call
RealtimeErrorSetters(errName) ==
    IF errName = "AbortError" THEN {"setIsLoading"}
    ELSE {"setError", "setSuggestions", "setIsLoading"}

\* the timer callback up to its await: the request goes out
RealtimeTimerFire(t) ==
    /\ variant = "realtime"
    /\ Due(t)
    /\ timers' = timers \ {t}
    /\ isLoading' = TRUE
    /\ error' = Null
    /\ aborted' = Abort(aborted, lastRequestRef)
    /\ lastRequestRef' = t.id
    /\ issued' = issued \cup {Token(t)}
    /\ inflight' = inflight \cup {Token(t)}
    /\ lastCall' = NoCall
    /\ burstLen' = 0
    /\ elapsed' = NoTime
    /\ op' = Op("fire", <<t.id, burstLen, Sent(t), elapsed>>)
    /\ UNCHANGED <<propVars, sessionVars, lifeVars, nextTimer, debounceTimeoutRef, liveVars,
                   paragraphs, activeParagraphId, suggestionsByParagraph,
                   escaped, lastWriter>>

\* a request resolves with a response
RealtimeResolve(r, response) ==
    /\ variant = "realtime"
    /\ r \in inflight
    /\ inflight' = inflight \ {r}
    /\ IF mounted
       THEN /\ RealtimeOnResponse(r, response)
            /\ isLoading' = FALSE
            /\ UNCHANGED lateSetters
       ELSE /\ UNCHANGED <<suggestionsByParagraph, lastWriter, isLoading>>
            /\ lateSetters' = lateSetters \cup RealtimeResponseSetters(r.id)
    /\ op' = Op("response", <<r.id, 0, response>>)
    /\ UNCHANGED <<propVars, sessionVars, mounted, timerVars, issued, aborted, liveVars,
                   paragraphs, activeParagraphId, error, lastRequestRef,
                   escaped>>

\* a request fails in transport
RealtimeFail(r, errName) ==
    /\ variant = "realtime"
    /\ r \in inflight
    /\ inflight' = inflight \ {r}
    /\ IF mounted
       THEN /\ RealtimeOnError(r, errName)
            /\ isLoading' = FALSE
            /\ UNCHANGED lateSetters
       ELSE /\ UNCHANGED <<suggestionsByParagraph, error, lastWriter,
                           isLoading>>
            /\ lateSetters' = lateSetters \cup RealtimeErrorSetters(errName)
    /\ escaped' = (escaped \/ ~Caught(errName))
    /\ op' = Op("failure", <<r.id, errName>>)
    /\ UNCHANGED <<propVars, sessionVars, mounted, timerVars, issued, aborted, liveVars,
                   paragraphs, activeParagraphId, lastRequestRef>>

(***************************************************************************)
(* The session editor (EnhancedTipTapEditor with debouncedGetSuggestions)  *)
(***************************************************************************)
\* a paragraph of n letters
Rep(c, n) == [i \in 1 .. n |-> c]

\* the documents the user produces, each the sequence of its paragraphs: one
\* short paragraph; one long one; two that qualify; three that do not
Doc_Short == <<T_Hi>>
Doc_One == <<Rep("a", 43)>>
Doc_Two == <<Rep("b", 21), Rep("c", 21)>>
Doc_Many == <<Rep("d", 10), Rep("e", 10), Rep("f", 10)>>
SessionDocs == {Doc_Short, Doc_One, Doc_Two, Doc_Many}

\* editor.getHTML(): <p>...</p> for each paragraph
RECURSIVE Html(_)
Html(doc) ==
    IF doc = <<>> THEN <<>>
    ELSE <<"<", "p", ">">> \o Head(doc) \o <<"<", "/", "p", ">">>
             \o Html(Tail(doc))

\* extractParagraphs(htmlContent): the text of each p element
extractParagraphs(doc) == doc

\* !text.trim() || text.length < 50
SessionSkips(doc) ==
    Trim(Html(doc)) = <<>> \/ Len(Html(doc)) < MinContentLength

\* the loop's next paragraph, from position i on, that is asked for; 0 when
\* the loop ends
NextParagraph(doc, i) ==
    LET asked == {k \in i .. Len(extractParagraphs(doc)) :
                     Len(Trim(extractParagraphs(doc)[k])) > MinParagraphLength}
    IN  IF asked = {} THEN 0 ELSE CHOOSE k \in asked : \A j \in asked : k <= j

\* debouncedGetSuggestions(text)
debouncedGetSuggestions(doc) ==
    /\ sessionTimers' =
           {t \in sessionTimers : t.id # debounceRef}
               \cup {[id |-> nextSessionTimer, left |-> SessionDebounceMs,
                      text |-> doc]}
    /\ debounceRef' = nextSessionTimer
    /\ nextSessionTimer' = nextSessionTimer + 1

\* what the session editor's steps leave alone
SessionFrame ==
    UNCHANGED <<propVars, lifeVars, editorVars, timerVars, requestVars,
                aborted, abortControllerRef, itemVars, isLoading, escaped,
                lastWriter, paragraphVars>>

\* onUpdate: the user changes the document
SessionEdit(doc) ==
    /\ variant = "session"
    /\ nextSessionTimer <= MaxCalls
    /\ debouncedGetSuggestions(doc)
    /\ op' = Op("sessionEdit", <<>>)
    /\ UNCHANGED <<runs, started, sessionSuggestions, isLoadingSuggestions,
                   sessionWriter>>
    /\ SessionFrame

\* TickMs milliseconds pass
SessionTick ==
    /\ variant = "session"
    /\ \E t \in sessionTimers : t.left > 0
    /\ sessionTimers' =
           {[t EXCEPT !.left = IF t.left > TickMs THEN t.left - TickMs ELSE 0] :
               t \in sessionTimers}
    /\ op' = Op("sessionTick", <<>>)
    /\ UNCHANGED <<nextSessionTimer, debounceRef, runs, started,
                   sessionSuggestions, isLoadingSuggestions, sessionWriter>>
    /\ SessionFrame

\* the end of the loop: setSuggestions(newSuggestions), then finally
FinishRun(run, newSuggestions) ==
    /\ runs' = runs \ {run}
    /\ sessionSuggestions' = newSuggestions
    /\ sessionWriter' = run.id
    /\ isLoadingSuggestions' = FALSE

\* getSuggestionsForContent(text) up to its first await, or to its end when
\* no paragraph is asked for
getSuggestionsForContent(id, doc) ==
    IF SessionSkips(doc)
    THEN UNCHANGED <<runs, started, sessionSuggestions, isLoadingSuggestions,
                     sessionWriter>>
    ELSE /\ started' = started \cup {id}
         /\ IF NextParagraph(doc, 1) = 0
            THEN FinishRun([id |-> id], <<>>)
            ELSE /\ runs' = runs \cup {[id |-> id, text |-> doc,
                                        i |-> NextParagraph(doc, 1),
                                        newSuggestions |-> <<>>]}
                 /\ isLoadingSuggestions' = TRUE
                 /\ UNCHANGED <<sessionSuggestions, sessionWriter>>

\* the timer callback runs
SessionTimerFire(t) ==
    /\ variant = "session"
    /\ t \in sessionTimers
    /\ t.left = 0
    /\ sessionTimers' = sessionTimers \ {t}
    /\ getSuggestionsForContent(t.id, t.text)
    /\ op' = Op("sessionFire", <<t.id, SessionSkips(t.text)>>)
    /\ UNCHANGED <<nextSessionTimer, debounceRef>>
    /\ SessionFrame

\* response.suggestions: absent, or a list of one item
SessionResponses == {None, Some(<<I_X>>), Some(<<I_Y>>)}

\* newSuggestions after the response for the paragraph at position i
Pushed(run, response) ==
    IF response # None /\ Len(response[1]) > 0
    THEN Append(run.newSuggestions,
                [text |-> response[1][1], paragraphIndex |-> run.i - 1])
    ELSE run.newSuggestions

\* the response a run awaits arrives: the loop goes on to its next await or
\* to its end
SessionResolve(run, response) ==
    /\ variant = "session"
    /\ run \in runs
    /\ IF NextParagraph(run.text, run.i + 1) # 0
       THEN /\ runs' = (runs \ {run})
                           \cup {[run EXCEPT
                                     !.i = NextParagraph(run.text, run.i + 1),
                                     !.newSuggestions = Pushed(run, response)]}
            /\ UNCHANGED <<sessionSuggestions, isLoadingSuggestions,
                           sessionWriter>>
       ELSE FinishRun(run, Pushed(run, response))
    /\ op' = Op("sessionResponse", <<run.id>>)
    /\ UNCHANGED <<sessionTimers, nextSessionTimer, debounceRef, started>>
    /\ SessionFrame

\* the request a run awaits fails: catch logs, finally clears the flag
SessionFail(run) ==
    /\ variant = "session"
    /\ run \in runs
    /\ runs' = runs \ {run}
    /\ isLoadingSuggestions' = FALSE
    /\ op' = Op("sessionFailure", <<run.id>>)
    /\ UNCHANGED <<sessionTimers, nextSessionTimer, debounceRef, started,
                   sessionSuggestions, sessionWriter>>
    /\ SessionFrame

(***************************************************************************)
(* Teardown: the cleanup functions of the hooks' unmount effects           *)
(***************************************************************************)
\* a cleanup that aborts the controller and leaves the timer armed
liveCleanupKeepingTimer ==
    /\ aborted' = Abort(aborted, abortControllerRef)
    /\ UNCHANGED timers

\* useLiveSuggestions: useEffect(() => () => {...}, [])
liveCleanup ==
    /\ timers' = ClearTimeout(timers, debounceTimeoutRef)
    /\ aborted' = Abort(aborted, abortControllerRef)

\* useRealtimeSuggestions: useEffect(() => () => {...}, [])
realtimeCleanup ==
    /\ timers' = ClearTimeout(timers, debounceTimeoutRef)
    /\ aborted' = Abort(aborted, lastRequestRef)

\* the live editor is unmounted
LiveUnmount ==
    /\ variant = "live"
    /\ mounted
    /\ mounted' = FALSE
    /\ liveCleanup
    /\ op' = Op("unmount", <<Cardinality(timers), Cardinality(inflight)>>)
    /\ UNCHANGED <<propVars, sessionVars, lateSetters, nextTimer, debounceTimeoutRef,
                   lastCall, burstLen, elapsed, requestVars, liveVars,
                   isLoading,
                   escaped, lastWriter, paragraphVars>>

\* the paragraph editor is unmounted
RealtimeUnmount ==
    /\ variant = "realtime"
    /\ mounted
    /\ mounted' = FALSE
    /\ realtimeCleanup
    /\ op' = Op("unmount", <<Cardinality(timers), Cardinality(inflight)>>)
    /\ UNCHANGED <<propVars, sessionVars, lateSetters, nextTimer, debounceTimeoutRef,
                   lastCall, burstLen, elapsed, requestVars, liveVars,
                   isLoading,
                   escaped, lastWriter, paragraphVars>>

(***************************************************************************)
(* The specification                                                       *)
(***************************************************************************)
Variants == {"live", "realtime", "session"}
UserIds == {Null, "u1"}
SessionIds == {Null, "s1"}
\* the paragraph the user edits: the second one
EditedParagraphs == {2}
\* the texts the user gives a paragraph
ParagraphTexts == {T_Blank, T_Hi}
\* the paragraph ids of direct calls of fetchSuggestions
CallParagraphIds == {ParagraphId(0, T_Hi3)}
\* texts of direct calls of the hook: the hook is given them as they are
CallTexts == {T_Hi}
\* texts of direct calls of useRealtimeSuggestions' fetchSuggestions
RealtimeCallTexts == {T_Blank, T_Hi}
\* the index handed to the paragraph hook's acceptSuggestion and
\* rejectSuggestion: the first item
RealtimeIndexes == {0}
\* indexes handed to applySuggestion: the first item, and one past every list
ApplyIndexes == {0, 2}
AcceptIndexes == {None} \cup {Some(i) : i \in 0 .. 3}

Init ==
    /\ variant \in Variants
    /\ userId \in IF variant = "session" THEN {"u1"} ELSE UserIds
    /\ sessionId \in IF variant = "realtime" THEN SessionIds ELSE {"s1"}
    /\ editorText = <<>>
    /\ editorCursor = 0
    /\ paragraphs = <<T_Hi3, T_Blank>>
    /\ activeParagraphId = None
    /\ lastRequestRef = 0
    /\ suggestionsByParagraph = <<>>
    /\ error = Null
    /\ timers = {}
    /\ nextTimer = 1
    /\ debounceTimeoutRef = 0
    /\ issued = {}
    /\ inflight = {}
    /\ aborted = {}
    /\ abortControllerRef = 0
    /\ suggestions = <<>>
    /\ isLoading = FALSE
    /\ showSuggestions = "false"
    /\ selectedSuggestionIndex = 0
    /\ escaped = FALSE
    /\ lastCall = NoCall
    /\ burstLen = 0
    /\ elapsed = NoTime
    /\ lastWriter = 0
    /\ mounted = TRUE
    /\ lateSetters = {}
    /\ sessionTimers = {}
    /\ nextSessionTimer = 1
    /\ debounceRef = 0
    /\ runs = {}
    /\ started = {}
    /\ sessionSuggestions = <<>>
    /\ isLoadingSuggestions = FALSE
    /\ sessionWriter = 0
    /\ op = Op("init", <<>>)

Next ==
    \/ \E text \in Texts : LiveEdit(text, Len(text))
    \/ LiveTestButton
    \/ \E text \in CallTexts : LiveFetchCall(text, None)
    \/ \E index \in AcceptIndexes : LiveAccept(index)
    \/ LiveReject
    \/ \E direction \in {"up", "down"} : LiveNavigate(direction)
    \/ Tick
    \/ \E t \in timers : LiveTimerFire(t)
    \/ \E id \in InflightIds : \E response \in LiveResponses :
           LiveResolve(id, response)
    \/ \E id \in InflightIds : \E errName \in ErrorNames : LiveFail(id, errName)
    \/ \E i \in EditedParagraphs : \E text \in ParagraphTexts :
           RealtimeEdit(i, text)
    \/ \E i \in 1 .. 2 : RealtimeClick(i)
    \/ \E paragraphId \in CallParagraphIds : \E text \in RealtimeCallTexts :
           RealtimeFetchCall(paragraphId, text, Some(1))
    \/ \E t \in timers : RealtimeTimerFire(t)
    \/ \E r \in inflight : \E response \in RealtimeResponses :
           RealtimeResolve(r, response)
    \/ \E r \in inflight : \E errName \in RealtimeErrorNames : RealtimeFail(r, errName)
    \/ \E key \in Keys : LiveKeyDown(key)
    \/ \E paragraphId \in CallParagraphIds : \E i \in RealtimeIndexes :
           RealtimeAccept(paragraphId, i)
    \/ \E paragraphId \in CallParagraphIds : \E i \in RealtimeIndexes :
           RealtimeReject(paragraphId, i)
    \/ \E paragraphId \in CallParagraphIds : \E i \in ApplyIndexes :
           \E originalText \in CallTexts :
               RealtimeApply(paragraphId, i, originalText)
    \/ \E paragraphId \in CallParagraphIds : RealtimeClear(paragraphId)
    \/ \E doc \in SessionDocs : SessionEdit(doc)
    \/ SessionTick
    \/ \E t \in sessionTimers : SessionTimerFire(t)
    \/ \E run \in runs : \E response \in SessionResponses :
           SessionResolve(run, response)
    \/ \E run \in runs : SessionFail(run)
    \/ LiveUnmount
    \/ RealtimeUnmount

Spec == Init /\ [][Next]_vars

\* the browser runs a due timer callback, time passes, and every request
\* sent comes back with a response or an error
TimerFires ==
    \/ \E t \in timers : LiveTimerFire(t)
    \/ \E t \in timers : RealtimeTimerFire(t)

RequestReturns ==
    \/ \E id \in InflightIds :
           \/ \E response \in LiveResponses : LiveResolve(id, response)
           \/ \E errName \in ErrorNames : LiveFail(id, errName)
    \/ \E r \in inflight :
           \/ \E response \in RealtimeResponses : RealtimeResolve(r, response)
           \/ \E errName \in RealtimeErrorNames : RealtimeFail(r, errName)

FairSpec ==
    /\ Spec
    /\ WF_vars(Tick)
    /\ WF_vars(TimerFires)
    /\ WF_vars(RequestReturns)

(***************************************************************************)
(* Properties                                                              *)
(***************************************************************************)
\* r has been superseded: a later request was sent for the same context
Superseded(r) == \E q \in issued : q.pid = r.pid /\ q.id > r.id

\* this step is the arrival of r's outcome
Resolves(r) == r \in inflight /\ r \notin inflight'

\* what the hooks show of the suggestions
committedVars == <<suggestions, showSuggestions, selectedSuggestionIndex,
                   suggestionsByParagraph, error>>

C2_SupersededOutcomeChangesNothing ==
    [][\A r \in inflight :
          (Resolves(r) /\ Superseded(r)) => UNCHANGED committedVars]_vars

\* the closure of a timer is the latest arming call's arguments
CarriesLastCall(t) ==
    [pid |-> t.pid, text |-> t.text, cursor |-> t.cursor] = lastCall

\* C3: debounce coalescing.  After every schedule call of a burst one timer
\* is pending and it holds the arguments of the latest call; while the hook
\* is mounted a timer leaves the queue only by firing; and when it fires one
\* request goes out, with the text and cursor of the burst's last call, and
\* no timer of the burst is left.
C3_DebounceCoalescing ==
    [][/\ timers' # {} =>
              \E t \in timers' : timers' = {t} /\ CarriesLastCall(t)'
       /\ (timers # {} /\ timers' = {} /\ mounted') => issued' # issued
       /\ issued' # issued =>
              \E t \in timers :
                  /\ CarriesLastCall(t)
                  /\ op'.name = "fire" /\ op'.arg[3] = Sent(t)
                  /\ inflight' = inflight \cup {Token(t)}
                  /\ issued' = issued \cup {Token(t)}
                  /\ Token(t) \notin issued
                  /\ timers' = {}]_vars

\* a burst of two or more schedule calls has ended in a request
C3_Witness ==
    /\ op.name = "fire"
    /\ op.arg[2] >= 2
    /\ op.arg[3].text = T_Once

\* C4: no request is sent for a text that is empty, blank or shorter than
\* the threshold of 3 characters.
C4_NoRequestBelowThreshold ==
    op.name = "fire" =>
        /\ Trim(op.arg[3].text) # <<>>
        /\ Len(op.arg[3].text) > MinTrimmedLength

\* the request that op names
OpRequest == CHOOSE r \in issued : r.id = op.arg[1]

\* C5: the transport failure of the latest request becomes the error state:
\* no exception leaves the callback, loading is over, the live hook's items
\* are empty and hidden, the paragraph's entry is an empty list and an error.
C5_FailureBecomesErrorState ==
    (mounted /\ op.name = "failure" /\ op.arg[1] = LatestIssued) =>
        /\ ~escaped
        /\ isLoading = FALSE
        /\ variant = "live" =>
               suggestions = <<>> /\ showSuggestions = "false"
        /\ variant = "realtime" =>
               /\ OpRequest.pid \in DOMAIN suggestionsByParagraph
               /\ suggestionsByParagraph[OpRequest.pid].suggestions = <<>>
               /\ suggestionsByParagraph[OpRequest.pid].error # Null
               /\ error # Null

\* the second request, the latest one, has failed
C5_Witness ==
    /\ mounted
    /\ op.name = "failure"
    /\ op.arg[1] = LatestIssued
    /\ op.arg[1] = 2
    /\ variant = "realtime"

\* the index acceptSuggestion(index) resolves names a non-empty item
AcceptFindsItem(index) ==
    LET i == IF index # None THEN index[1] ELSE selectedSuggestionIndex
    IN  i \in 0 .. Len(suggestions) - 1 /\ suggestions[i + 1] # <<>>

Cleared ==
    /\ suggestions = <<>>
    /\ showSuggestions = "false"
    /\ selectedSuggestionIndex = 0

C7_RejectClearsWithoutInsert ==
    [][op'.name = "reject" =>
          /\ suggestions' = <<>>
          /\ showSuggestions' = "false"
          /\ UNCHANGED <<editorText, editorCursor, timers, issued>>]_vars

\* a shown set was rejected
C7_Witness ==
    /\ op.name = "reject"
    /\ op.arg[1] > 0
    /\ suggestions = <<>>

\* C8: over N >= 1 items 'down' takes i to (i + 1) mod N and 'up' takes i
\* to (i - 1) mod N.
C8_NavigateWraps ==
    [][(op'.name = "navigate" /\ Len(suggestions) >= 1) =>
          LET n == Len(suggestions)
              i == selectedSuggestionIndex
          IN  /\ op'.arg = <<"down">> =>
                     selectedSuggestionIndex' = (i + 1) % n
              /\ op'.arg = <<"up">> =>
                     selectedSuggestionIndex' = (i + n - 1) % n]_vars

\* 'up' from index 0 of three items has wrapped to index 2
C8_Witness ==
    /\ op.name = "navigate"
    /\ op.arg = <<"up">>
    /\ Len(suggestions) = 3
    /\ selectedSuggestionIndex = 2

\* C9: the selected index is an index of the list whenever the list is not
\* empty.
C9_SelectedIndexInRange ==
    (variant = "live" /\ suggestions # <<>>) =>
        selectedSuggestionIndex \in 0 .. Len(suggestions) - 1

\* a response of one item has replaced a list whose index 2 was selected
C9_Witness ==
    /\ op.name = "response"
    /\ variant = "live"
    /\ op.arg[2] = 2
    /\ Len(suggestions) = 1

\* C10: a fetchSuggestions call for one paragraph leaves the pending timer
\* of another paragraph armed.
C10_OtherParagraphKeepsTimer ==
    [][\A t \in timers :
          (variant = "realtime" /\ nextTimer' # nextTimer
               /\ lastCall'.pid # t.pid) =>
              \E u \in timers' : u.id = t.id]_vars

\* r is the latest request sent for its paragraph
LatestOfContext(r) == ~\E q \in issued : q.pid = r.pid /\ q.id > r.id

\* C11: in useRealtimeSuggestions the response of the latest request of a
\* paragraph is committed under that paragraph's key, whatever requests were
\* sent for other paragraphs in the meantime.
C11_OtherParagraphKeepsResponse ==
    [][\A r \in inflight :
          (variant = "realtime" /\ mounted /\ Resolves(r)
               /\ op'.name = "response" /\ LatestOfContext(r)) =>
              /\ lastWriter' = r.id
              /\ r.pid \in DOMAIN suggestionsByParagraph']_vars

\* C12: after the unmount no state setter of the hook is called.
C12_NoSetterAfterUnmount == lateSetters = {}

\* C13: after the unmount no request is sent: no timer is pending, so none
\* fires, and the controller of every request in flight is aborted.
C13_TeardownStopsRequests ==
    [][~mounted' =>
          /\ issued' = issued
          /\ timers' = {}
          /\ \A r \in inflight' : SignalAborted(r.id)']_vars

\* the hook was unmounted with a timer pending and a request in flight, and
\* the request has resolved since
C13_Witness ==
    /\ ~mounted
    /\ op.name \in {"response", "failure"}
    /\ issued # {}
    /\ \A r \in issued : r.id = 1
    /\ nextTimer = 3
    /\ timers = {}

\* the text ends in a whitespace character
EndsInWhitespace(text) == text # <<>> /\ IsSpace(text[Len(text)])

\* the text the rule of C14 gives for an item applied to a target text
JoinedText(target, item) ==
    IF EndsInWhitespace(target) THEN target \o item
    ELSE target \o <<" ">> \o item

\* C14: applying an item to the document, the cursor at its end, gives the
\* document followed by the item, with one space between them unless the
\* document already ends in whitespace.
C14_ApplyJoinsWithOneSpace ==
    [][(op'.name = "accept" /\ op'.arg[2] # None
            /\ editorCursor = Len(editorText)) =>
          editorText' = JoinedText(editorText, op'.arg[2][1])]_vars

\* C15: while the latest request sent is in flight the loading flag is true.
C15_LoadingWhileLatestOutstanding ==
    (mounted /\ \E r \in inflight : r.id = LatestIssued) => isLoading = TRUE

\* the requests in flight whose controller is not aborted
Current == {r \in inflight : ~SignalAborted(r.id)}

\* C16: at most one request is current, in flight with a controller that is
\* not aborted: every request sent before the latest one is marked aborted.
C16_OneCurrentRequest ==
    /\ \A q \in issued : q.id # LatestIssued => SignalAborted(q.id)
    /\ Cardinality(Current) <= 1

\* two requests are in flight and one of them is current
C16_Witness ==
    /\ mounted
    /\ Cardinality(inflight) = 2
    /\ Cardinality(Current) = 1

\* C17: while showSuggestions is not true a keydown is not prevented, no
\* callback is invoked and nothing changes; a key that is not Tab, Escape,
\* ArrowUp or ArrowDown is never prevented.
C17_HiddenOverlayInterceptsNothing ==
    [][op'.name = "keydown" =>
          /\ ~Truthy(showSuggestions) =>
                 /\ op'.arg[2].prevented = FALSE
                 /\ op'.arg[2].call = <<>>
                 /\ UNCHANGED <<itemVars, editorVars, timers, issued>>
          /\ op'.arg[1] \notin BoundKeys =>
                 op'.arg[2].prevented = FALSE]_vars

\* Tab was pressed while the overlay was hidden, showSuggestions being
\* undefined after a response without a list, and was not prevented
C17_Witness ==
    /\ op.name = "keydown"
    /\ op.arg[1] = "Tab"
    /\ op.arg[2].prevented = FALSE
    /\ showSuggestions = "undefined"

\* C18: a request goes out only when the debounce window has passed since
\* the latest schedule call: every arming call leaves one timer with the
\* whole window ahead of it, and a timer fires DebounceMs or more after it.
C18_FiresAfterQuietWindow ==
    [][/\ nextTimer' # nextTimer =>
              \A t \in timers' : t.left = DebounceMs /\ elapsed'.last = 0
       /\ issued' # issued => elapsed.last >= DebounceMs]_vars

\* a call came while the window of an earlier call was running, and the
\* request went out a full window after that call
C18_Witness ==
    /\ op.name = "fire"
    /\ op.arg[2] >= 2
    /\ op.arg[4].first > op.arg[4].last
    /\ op.arg[4].last >= DebounceMs

\* C19: once the controller of a request is aborted the request ends with
\* an abort outcome: it delivers no response and no other failure.
C19_AbortedRequestEndsAborted ==
    [][\A r \in inflight :
          (Resolves(r) /\ SignalAborted(r.id)) =>
              op'.name = "failure" /\ op'.arg[2] = "AbortError"]_vars

\* C20: while showSuggestions is true Tab accepts the selected index,
\* Escape rejects, ArrowUp navigates up and ArrowDown navigates down; each
\* is prevented, and the step is the step of that handler.
C20_BoundKeysDispatch ==
    [][(op'.name = "keydown" /\ Truthy(showSuggestions)) =>
          LET key == op'.arg[1]
              out == op'.arg[2]
          IN  /\ key = "Tab" =>
                     /\ out = [prevented |-> TRUE,
                               call |-> <<"onAccept", selectedSuggestionIndex>>]
                     /\ handleAcceptSuggestion(Some(selectedSuggestionIndex))
              /\ key = "Escape" =>
                     /\ out = [prevented |-> TRUE, call |-> <<"onReject">>]
                     /\ handleRejectSuggestion
              /\ key = "ArrowUp" =>
                     /\ out = [prevented |-> TRUE,
                               call |-> <<"onNavigate", "up">>]
                     /\ handleNavigateSuggestions("up")
              /\ key = "ArrowDown" =>
                     /\ out = [prevented |-> TRUE,
                               call |-> <<"onNavigate", "down">>]
                     /\ handleNavigateSuggestions("down")]_vars

\* Tab has accepted the third item, the one selected
C20_Witness ==
    /\ op.name = "keydown"
    /\ op.arg[1] = "Tab"
    /\ op.arg[2].call = <<"onAccept", 2>>
    /\ suggestions = <<>>
    /\ editorText = SuggestionText(I_Y)

\* C21: an editor update of the live variant supersedes the cycle under
\* way: after it no timer armed for an older text is pending and every
\* request in flight is marked aborted.
C21_EditSupersedesOlderCycle ==
    [][(variant = "live" /\ op'.name = "edit") =>
          /\ \A t \in timers' : t.text = editorText'
          /\ \A r \in inflight' : SignalAborted(r.id)']_vars

\* the reference token model: the token of r is the latest one issued for
\* its context
TokenIsLatest(r) == \A q \in issued : q.pid = r.pid => q.id <= r.id

\* this step is the arrival of r's response at the mounted hook, all the
\* requests sent so far being of r's context
ResponseArrives(r) ==
    /\ mounted
    /\ Resolves(r)
    /\ op'.name = "response"
    /\ \A q \in issued : q.pid = r.pid

\* this step writes r's response to the suggestion state
Commits(r) == lastWriter' = r.id

\* C22 as stated: a response is committed exactly when the token model
\* commits it, its token being the latest one issued.
C22_CommitsExactlyLatestToken ==
    [][\A r \in inflight :
          ResponseArrives(r) => (Commits(r) <=> TokenIsLatest(r))]_vars

\* C22 as amended: useRealtimeSuggestions commits exactly the responses whose
\* token is the latest issued; useLiveSuggestions commits exactly those whose
\* token is the latest issued and after whose issuance no schedule call was
\* made.
C22_CommitsLatestTokenUnlessRescheduled ==
    [][\A r \in inflight :
          ResponseArrives(r) =>
              (Commits(r) <=>
                  /\ TokenIsLatest(r)
                  /\ variant = "live" => debounceTimeoutRef = r.id)]_vars

\* the response of the latest request issued arrived while the timer of a
\* newer schedule call was pending, and was discarded
C22_Witness ==
    /\ variant = "live"
    /\ mounted
    /\ op.name = "response"
    /\ op.arg[1] = LatestIssued
    /\ lastWriter # op.arg[1]
    /\ timers # {}

\* C24: when the response of the current request arrives at the mounted
\* live hook, the list shown is the response's list, item for item in the
\* response's order (the empty list when the response has none), the selected
\* index is 0, and the visibility flag is truthy exactly when the list has
\* items.
C24_ResponseBecomesTheList ==
    [][\A r \in inflight :
          ( /\ variant = "live"
            /\ mounted
            /\ Resolves(r)
            /\ op'.name = "response"
            /\ ~SignalAborted(r.id) ) =>
              LET response == op'.arg[3]
                  list == IF response = None THEN <<>> ELSE response[1]
              IN  /\ Len(suggestions') = Len(list)
                  /\ \A i \in 1 .. Len(list) : suggestions'[i] = list[i]
                  /\ selectedSuggestionIndex' = 0
                  /\ Truthy(showSuggestions') <=> Len(list) > 0]_vars

\* a three-item response replaced a list whose selected index was not 0
C24_Witness ==
    /\ variant = "live"
    /\ mounted
    /\ op.name = "response"
    /\ op.arg[2] > 0
    /\ op.arg[3] = Some(<<I_Empty, I_X, I_Y>>)
    /\ lastWriter = op.arg[1]
    /\ suggestions = <<I_Empty, I_X, I_Y>>
    /\ showSuggestions = "true"

\* a response without a list arrived and is shown as no items, hidden
C24_WitnessNoList ==
    /\ variant = "live"
    /\ mounted
    /\ op.name = "response"
    /\ op.arg[3] = None
    /\ lastWriter = op.arg[1]
    /\ suggestions = <<>>
    /\ ~Truthy(showSuggestions)

\* the steps that schedule a request or send it
ScheduleOrFire ==
    {"edit", "testButton", "fetchLiveSuggestions", "fetchSuggestions", "click",
     "fire"}

\* C25: a schedule call and the firing of the debounce timer leave the stored
\* items, the selected index and the visibility flag as they were, in both
\* hooks.
C25_ScheduleAndFireKeepItems ==
    [][op'.name \in ScheduleOrFire =>
          /\ suggestions' = suggestions
          /\ selectedSuggestionIndex' = selectedSuggestionIndex
          /\ showSuggestions' = showSuggestions
          /\ suggestionsByParagraph' = suggestionsByParagraph]_vars

\* a timer fired while the overlay showed a list with its third item selected
C25_Witness ==
    /\ variant = "live"
    /\ op.name = "fire"
    /\ Len(suggestions) = 3
    /\ selectedSuggestionIndex = 2
    /\ showSuggestions = "true"
    /\ isLoading

\* the text a step of the paragraph editor hands to fetchSuggestions
ScheduledText ==
    IF op'.name = "click" THEN paragraphs[op'.arg[1]] ELSE op'.arg[2]

\* C26: a schedule call of useRealtimeSuggestions whose text is empty or
\* whitespace only, or made while userId or sessionId is missing, leaves the
\* suggestions map, the loading flag and the error value as they were, arms
\* no timer and sends no request.
C26_SkippedCallChangesNothing ==
    [][( /\ variant = "realtime"
         /\ op'.name \in {"fetchSuggestions", "click"}
         /\ \/ \A i \in 1 .. Len(ScheduledText) : IsSpace(ScheduledText[i])
            \/ userId = Null
            \/ sessionId = Null ) =>
          /\ suggestionsByParagraph' = suggestionsByParagraph
          /\ isLoading' = isLoading
          /\ error' = error
          /\ timers' = timers
          /\ nextTimer' = nextTimer
          /\ debounceTimeoutRef' = debounceTimeoutRef
          /\ issued' = issued
          /\ inflight' = inflight]_vars

\* a whitespace-only call was made while the timer of an earlier call was
\* pending and an entry was stored, and both are still there
C26_Witness ==
    /\ variant = "realtime"
    /\ userId # Null
    /\ sessionId # Null
    /\ op.name = "fetchSuggestions"
    /\ op.arg[2] = T_Blank
    /\ timers # {}
    /\ suggestionsByParagraph # <<>>

\* the paragraph has nothing to show: no entry, or an entry without items
NothingStored(paragraphId) ==
    \/ paragraphId \notin DOMAIN suggestionsByParagraph
    \/ suggestionsByParagraph[paragraphId].suggestions = <<>>

\* C27: after acceptSuggestion(paragraphId, i) or rejectSuggestion(
\* paragraphId, i) of useRealtimeSuggestions, getSuggestions(paragraphId) is
\* null or an entry without items.
C27_AcceptOrRejectClearsParagraph ==
    op.name \in {"acceptSuggestion", "rejectSuggestion"} =>
        NothingStored(op.arg[1])

\* the paragraph a step of the paragraph hook writes for
WrittenParagraph ==
    IF op'.name \in {"response", "failure"}
    THEN (CHOOSE r \in inflight : r.id = op'.arg[1]).pid
    ELSE op'.arg[1]

\* the steps of the paragraph hook that write the suggestions map
MapWrites ==
    {"response", "failure", "acceptSuggestion", "rejectSuggestion",
     "applySuggestion", "clearSuggestions"}

\* C28: a write of useRealtimeSuggestions for one paragraph (a response, a
\* failure, acceptSuggestion, rejectSuggestion, applySuggestion or
\* clearSuggestions) leaves the entry of every other paragraph as it was and
\* adds no entry under another id, and a response that is written is stored
\* under the paragraph id its schedule call was given.
C28_WritesStayInTheirParagraph ==
    [][(variant = "realtime" /\ op'.name \in MapWrites) =>
          /\ \A p \in DOMAIN suggestionsByParagraph \ {WrittenParagraph} :
                 /\ p \in DOMAIN suggestionsByParagraph'
                 /\ suggestionsByParagraph'[p] = suggestionsByParagraph[p]
          /\ DOMAIN suggestionsByParagraph' \subseteq
                 DOMAIN suggestionsByParagraph \cup {WrittenParagraph}
          /\ (op'.name = "response" /\ lastWriter' = op'.arg[1]
                 /\ lastWriter # op'.arg[1]) =>
                 /\ WrittenParagraph \in DOMAIN suggestionsByParagraph'
                 /\ suggestionsByParagraph'[WrittenParagraph].suggestions =
                        (IF op'.arg[3] = None THEN <<>> ELSE op'.arg[3][1])]_vars

\* a write was made for the first paragraph while the second one had an
\* entry with items, which is still there
C28_Witness ==
    /\ variant = "realtime"
    /\ op.name \in {"acceptSuggestion", "rejectSuggestion", "applySuggestion",
                    "clearSuggestions", "response"}
    /\ \E p \in DOMAIN suggestionsByParagraph :
           /\ p # ParagraphId(0, T_Hi3)
           /\ Len(suggestionsByParagraph[p].suggestions) = 2
    /\ op.name = "response" => lastWriter = op.arg[1]
    /\ op.name # "response" => op.arg[1] = ParagraphId(0, T_Hi3)
    /\ ParagraphId(0, T_Hi3) \in DOMAIN suggestionsByParagraph
           \/ op.name = "clearSuggestions"

\* C29 as stated: applySuggestion leaves the suggestions map unchanged.
C29_ApplyLeavesMapUnchanged ==
    [][op'.name = "applySuggestion" =>
          suggestionsByParagraph' = suggestionsByParagraph]_vars

\* C29 as amended: applySuggestion changes nothing but the appliedSuggestion
\* mark of the paragraph's entry, set to the index when the entry has a
\* non-empty item there, and returns the text followed by the bracketed
\* item; when there is no entry or no such item it returns the text as given
\* and leaves the map unchanged.
C29_ApplyOnlyMarksTheEntry ==
    [][op'.name = "applySuggestion" =>
          LET paragraphId == op'.arg[1]
              i == op'.arg[2]
              originalText == op'.arg[3]
              returned == op'.arg[4]
              found ==
                  /\ paragraphId \in DOMAIN suggestionsByParagraph
                  /\ i < Len(suggestionsByParagraph[paragraphId].suggestions)
                  /\ suggestionsByParagraph[paragraphId].suggestions[i + 1]
                         # <<>>
          IN  IF found
              THEN /\ DOMAIN suggestionsByParagraph' =
                          DOMAIN suggestionsByParagraph
                   /\ \A p \in DOMAIN suggestionsByParagraph :
                          suggestionsByParagraph'[p] =
                              IF p = paragraphId
                              THEN [suggestionsByParagraph[p] EXCEPT
                                       !.appliedSuggestion = Some(i)]
                              ELSE suggestionsByParagraph[p]
                   /\ returned =
                          originalText
                              \o <<"\n", "\n", "[AI Suggestion Applied: ">>
                              \o suggestionsByParagraph[paragraphId]
                                     .suggestions[i + 1]
                              \o <<"]">>
              ELSE /\ suggestionsByParagraph' = suggestionsByParagraph
                   /\ returned = originalText]_vars

\* applySuggestion found the first item of the paragraph's list and the entry
\* now carries the mark
C29_Witness ==
    /\ variant = "realtime"
    /\ op.name = "applySuggestion"
    /\ op.arg[2] = 0
    /\ op.arg[4] # op.arg[3]
    /\ suggestionsByParagraph[op.arg[1]].appliedSuggestion = Some(0)

\* C30: in the session editor, a run that a later-started run has overtaken
\* writes nothing to the suggestions when it finishes, and the loading flag
\* is true as long as the run started last is awaiting a response.
C30_LaterRunWins ==
    [][/\ \A run \in runs :
              (run \notin runs' /\ \E q \in started : q > run.id) =>
                  /\ sessionSuggestions' = sessionSuggestions
                  /\ sessionWriter' = sessionWriter
       /\ (\E run \in runs' : \A q \in started' : q <= run.id) =>
              isLoadingSuggestions']_vars

\* C23: once the schedule calls have stopped and every request sent has come
\* back, the mounted hook's loading flag is false for good and what it shows
\* was written by the request sent for the last schedule call.
C23_SettlesOnLastRequest ==
    <>[](mounted =>
            /\ isLoading = FALSE
            /\ issued # {} => lastWriter = LatestIssued)

\* the part of C23 about the loading flag alone
C23_LoadingSettles == <>[](mounted => isLoading = FALSE)

\* C31: in useLiveSuggestions the overlay is marked visible only while the
\* list has items, and then the selected index names one of them.
C31_VisibleImpliesItems ==
    (variant = "live" /\ Truthy(showSuggestions)) =>
        /\ Len(suggestions) >= 1
        /\ ItemAt(suggestions, selectedSuggestionIndex) # None

\* the visible overlay handled an arrow key over a list of three items
C31_Witness ==
    /\ variant = "live"
    /\ op.name = "keydown"
    /\ op.arg[2].prevented
    /\ op.arg[2].call[1] = "onNavigate"
    /\ Truthy(showSuggestions)
    /\ Len(suggestions) = 3
    /\ selectedSuggestionIndex = 2

\* the request whose response is displayed has been superseded by a newer
\* schedule call: its timer is pending, or its request has been sent
DisplayedSuperseded ==
    \/ timers # {}
    \/ \E q \in issued : q.id > lastWriter

\* C32: in useLiveSuggestions, once a newer fetchLiveSuggestions call has
\* superseded the request whose suggestions are displayed, acceptSuggestion
\* returns none of them.
C32_AcceptOnlyFromLatestCall ==
    [][(variant = "live" /\ op'.name = "accept" /\ DisplayedSuperseded) =>
          op'.arg[2] = None]_vars

\* C33: in useLiveSuggestions, a timer or a request that was pending when
\* the suggestions were rejected does not bring suggestions back: the steps
\* that follow a reject without a new fetchLiveSuggestions call leave the
\* list empty and the overlay hidden.
C33_RejectedStaysHidden ==
    [][(variant = "live" /\ mounted /\ op.name = "reject"
           /\ op'.name \in {"tick", "fire", "response", "failure"}) =>
          /\ suggestions' = <<>>
          /\ ~Truthy(showSuggestions')]_vars

\* C34: in each hook at most one debounce timer is pending, the one
\* debounceTimeoutRef holds, so that a timer a later schedule call has
\* cancelled never fires; and the requests sent never outnumber the schedule
\* calls that armed a timer.
C34_OnePendingTimer ==
    /\ Cardinality(timers) <= 1
    /\ \A t \in timers : t.id = debounceTimeoutRef
    /\ Cardinality(issued) <= nextTimer - 1
    /\ \A r \in issued : r.id < nextTimer

\* a schedule call has replaced the timer of an earlier call of its burst:
\* two calls were made, one timer is pending and no request has been sent
C34_Witness ==
    /\ Cardinality(timers) = 1
    /\ burstLen >= 2
    /\ nextTimer - 1 > Cardinality(issued)
    /\ \A t \in timers : t.id = 2
    /\ op.name \in {"edit", "click"}

\* the index acceptSuggestion(index) is to use: index, or the selected index
\* when index is null
AcceptIndex == IF op'.arg[1] # None THEN op'.arg[1][1] ELSE selectedSuggestionIndex

\* C35 as stated: acceptSuggestion(index) returns null and changes nothing
\* when the list has no item at the index, and returns the item at the index
\* whenever there is one.
C35_AcceptReturnsItemAtIndex ==
    [][op'.name = "accept" =>
          IF AcceptIndex \in 0 .. Len(suggestions) - 1
          THEN op'.arg[2] = Some(suggestions[AcceptIndex + 1])
          ELSE op'.arg[2] = None /\ UNCHANGED itemVars]_vars

\* C35 as amended: acceptSuggestion(index) returns the item at the index when
\* there is one and it is not the empty string; otherwise it returns null and
\* leaves items, visibility and selected index as they were.  Index 0 is an
\* index like any other.
C35_AcceptReturnsNonEmptyItemAtIndex ==
    [][op'.name = "accept" =>
          IF /\ AcceptIndex \in 0 .. Len(suggestions) - 1
             /\ suggestions[AcceptIndex + 1] # <<>>
          THEN op'.arg[2] = Some(suggestions[AcceptIndex + 1])
          ELSE op'.arg[2] = None /\ UNCHANGED itemVars]_vars

\* acceptSuggestion(0) was called with the second of three items selected
\* and the first one empty: it returned null and the list is as it was
C35_Witness ==
    /\ op.name = "accept"
    /\ op.arg = <<Some(0), None>>
    /\ Len(suggestions) = 3
    /\ selectedSuggestionIndex = 1
    /\ showSuggestions = "true"

\* acceptSuggestion() without an index returned the selected, third item
C35_WitnessDefault ==
    /\ op.name = "accept"
    /\ op.arg = <<None, Some(I_Y)>>

\* k steps in one direction from index i over a list of n items
RECURSIVE Steps(_, _, _, _)
Steps(direction, k, i, n) ==
    IF k = 0 THEN i
    ELSE Steps(direction, k - 1, NavigateIndex(direction, i, n), n)

Opposite(direction) == IF direction = "up" THEN "down" ELSE "up"

\* C36: navigateSuggestions permutes the indexes of a non-empty list: the
\* step in the opposite direction leads back from the index a step reaches,
\* as many steps as the list has items lead from that index to itself,
\* different indexes are taken to different indexes, and items and
\* visibility stay; on an empty list a step changes nothing.
C36_NavigateIsBijection ==
    [][op'.name = "navigate" =>
          LET n == Len(suggestions)
              d == op'.arg[1]
              j == selectedSuggestionIndex'
          IN  /\ suggestions' = suggestions
              /\ showSuggestions' = showSuggestions
              /\ n = 0 => j = selectedSuggestionIndex
              /\ n >= 1 =>
                     /\ j \in 0 .. n - 1
                     /\ NavigateIndex(Opposite(d), j, n) = selectedSuggestionIndex
                     /\ NavigateIndex(d, NavigateIndex(Opposite(d), j, n), n) = j
                     /\ Steps(d, n, j, n) = j
                     /\ Steps(d, n - 1, j, n) = selectedSuggestionIndex
                     /\ \A a, b \in 0 .. n - 1 :
                            NavigateIndex(d, a, n) = NavigateIndex(d, b, n)
                                => a = b]_vars

\* 'down' from the last of three items has wrapped to the first
C36_Witness ==
    /\ op.name = "navigate"
    /\ op.arg = <<"down">>
    /\ Len(suggestions) = 3
    /\ selectedSuggestionIndex = 0
    /\ showSuggestions = "true"
    /\ lastWriter # 0

\* a step was taken on an empty list
C36_WitnessEmpty ==
    /\ op.name = "navigate"
    /\ suggestions = <<>>
    /\ selectedSuggestionIndex = 0

\* C37: applySuggestion(paragraphId, index, originalText), the paragraph
\* having no stored entry or its list no item at the index, returns
\* originalText as given and leaves the suggestions map as it was.
C37_ApplyWithoutItemIsIdentity ==
    [][( /\ op'.name = "applySuggestion"
         /\ \/ op'.arg[1] \notin DOMAIN suggestionsByParagraph
            \/ op'.arg[2] \notin
                   0 .. Len(suggestionsByParagraph[op'.arg[1]].suggestions) - 1
       ) =>
          /\ op'.arg[4] = op'.arg[3]
          /\ suggestionsByParagraph' = suggestionsByParagraph]_vars

\* applySuggestion was called with an index past the two items stored for
\* the paragraph
C37_Witness ==
    /\ op.name = "applySuggestion"
    /\ op.arg[2] = 2
    /\ op.arg[1] \in DOMAIN suggestionsByParagraph
    /\ Len(suggestionsByParagraph[op.arg[1]].suggestions) = 2
    /\ suggestionsByParagraph[op.arg[1]].appliedSuggestion = None
    /\ op.arg[4] = T_Hi

\* applySuggestion was called for a paragraph without an entry
C37_WitnessNoEntry ==
    /\ op.name = "applySuggestion"
    /\ op.arg[1] \notin DOMAIN suggestionsByParagraph
    /\ op.arg[4] = op.arg[3]

====
